---- MODULE Spec2Model ----
(***************************************************************************)
(* A model of the algorithmic core of groupcache: the single-flight call   *)
(* coordinator (singleflight.Group.Do), the LRU index (lru.Cache), the     *)
(* consistent-hash ring (consistenthash.Map) and the sinks.                *)
(*                                                                         *)
(* Each component has its own specification (SpecSingleflight, SpecLRU,    *)
(* SpecRing, SpecSinks) in which the other components stay in their        *)
(* initial state; Spec is their composition.                               *)
(***************************************************************************)
EXTENDS Integers, Sequences, FiniteSets, TLC

(***************************************************************************)
(* Bounds of the model.                                                    *)
(***************************************************************************)
\* Number of goroutines that call Group.Do.
NumProcs == 2
\* Total number of Do invocations in a behaviour.
MaxCalls == 2

Procs == 1..NumProcs
\* Keys passed to Do.
Keys == {"k1", "k2"}
\* The zero value of call.val / call.err.
Nil == "nil"
\* What a caller-supplied fn may return: a value, or an error.
Outcomes == {<<"v1", Nil>>, <<Nil, "e1">>}
\* What fn of a call struct returned, while it has not.
NoResult == <<"none", "none">>

VARIABLES
  \* ---- singleflight.Group ----
  mu,      \* g.mu: 0 when unlocked, else the goroutine holding it
  m,       \* g.m: a function from the keys present to call structs (addresses)
  calls,   \* the heap of live call structs: address -> [wg, val, err] (+ history)
  pc,      \* per goroutine: where it stands in Do
  key,     \* per goroutine: Do's key argument
  c,       \* per goroutine: Do's local c (address of a call struct, 0 = unset)
  \* ---- history of the Do invocations (not program state) ----
  ncalls,  \* number of Do invocations so far
  hist,    \* per goroutine: history of its current invocation
  last,    \* the Do call that returned last: its result and its history
  \* ---- lru.Cache ----
  MaxEntries,  \* c.MaxEntries
  OnEvicted,   \* whether c.OnEvicted is set (not nil)
  isNil,       \* c.cache == nil and c.ll == nil (after Clear)
  ll,          \* c.ll: the list's elements (addresses), front first
  cache,       \* c.cache: a function from the keys present to elements
  elems,       \* the heap of list elements: address -> its *entry [key, value]
  \* ---- history of the cache operations (not program state) ----
  op,          \* the last operation and its arguments
  evicted,     \* the calls of c.OnEvicted the last operation made, in order
  used,        \* the keys present, the most recently added or hit first
  added,       \* per key present: the value last passed to Add
  \* ---- consistenthash.Map ----
  replicas,    \* m.replicas
  hash,        \* m.hash: which hash function the ring was made with
  keys,        \* m.keys: the points, sorted
  hashMap,     \* m.hashMap: a function from points to peers
  \* ---- history of the ring operations (not program state) ----
  peers,       \* the peers passed to Add, in order
  got,         \* the last Get: its key and the peer it returned
  \* ---- a Sink ----
  kind,        \* which implementation of Sink it is
  dstNil,      \* its target pointer (sp, dst) is nil
  sv,          \* s.v, the ByteView of a stringSink, protoSink, allocBytesSink
               \* or truncBytesSink
  target,      \* *s.sp, *s.dst or the message s.dst: what the caller observes
  bufs,        \* the bytes of each buffer in use
  \* ---- history of the sink (not program state) ----
  sop          \* the last call on the sink

sfvars == <<mu, m, calls, pc, key, c, ncalls, hist, last>>

lruvars == <<MaxEntries, OnEvicted, isNil, ll, cache, elems, op, evicted, used, added>>

ringvars == <<replicas, hash, keys, hashMap, peers, got>>

sinkvars == <<kind, dstNil, sv, target, bufs, sop>>

vars == <<sfvars, lruvars, ringvars, sinkvars>>

----------------------------------------------------------------------------
(***************************************************************************)
(* singleflight                                                            *)
(***************************************************************************)

\* The goroutines inside Do.
Active == {p \in Procs : pc[p] # "idle"}

\* fn of the call struct r has been called and has not returned.
FnRunning(r) == \E p \in Procs : c[p] = r /\ pc[p] = "fn"

\* The invocation that allocated r has put r in g.m and has not yet passed
\* its delete(g.m, key).
Registered(r) == \E p \in Procs : c[p] = r /\ pc[p] \in {"fn", "relock", "delete"}

\* A faulty variant: Wait returns at once.
WaitOverAtOnce(r) == TRUE

\* c.wg.Wait() on r returns: the WaitGroup's counter is zero.
WaitOver(r) == calls[r].wg = 0

\* Some goroutine is blocked in c.wg.Wait() on r.
HasWaiter(r) == \E p \in Procs : pc[p] = "wait" /\ c[p] = r

\* The live call structs made for key k.
CallsFor(k) == {r \in DOMAIN calls : calls[r].key = k}

\* A faulty variant: the lookup never finds a call struct.
FindNothing(mm, k) == 0

\* A faulty variant: the lookup ignores the key: one slot for all keys.
FindAny(mm, k) == IF DOMAIN mm # {} THEN mm[CHOOSE x \in DOMAIN mm : TRUE] ELSE 0

\* c, ok := g.m[key]: the call struct registered for k, 0 when there is none.
Find(mm, k) == IF k \in DOMAIN mm THEN mm[k] ELSE 0

\* A faulty variant: the new call struct is not registered.
MapPutLost(mm, k, r) == mm

\* g.m[key] = c
MapPut(mm, k, r) == [x \in DOMAIN mm \cup {k} |-> IF x = k THEN r ELSE mm[x]]

\* A faulty variant: the entry is never deleted.
MapDeleteNothing(mm, k) == mm

\* delete(g.m, key)
MapDelete(mm, k) == [x \in DOMAIN mm \ {k} |-> mm[x]]

\* c := new(call); c.wg.Add(1)
NewCall(k) ==
  [wg |-> 1, val |-> Nil, err |-> Nil,
   \* history: the key it was made for, what fn returned, whether its
   \* executor has deleted it from g.m
   key |-> k, out |-> NoResult, forgotten |-> FALSE]

\* The address new(call) returns: one that holds no live call struct.
NewAddr ==
  CHOOSE a \in 1..(Cardinality(DOMAIN calls) + 1) : a \notin DOMAIN calls

\* Go's garbage collector: a call struct lives while g.m or the local c of
\* some goroutine inside Do points to it.
Collect(heap, mm, cc) ==
  LET live == {mm[k] : k \in DOMAIN mm} \cup {cc[p] : p \in Procs}
  IN [r \in DOMAIN heap \cap live |-> heap[r]]

\* The history of an invocation of Do(k) that has just started.
NewHist(k) ==
  [\* some call on the same key overlapped this one
   ovSame |-> \E q \in Active : key[q] = k,
   \* some call on the same key that overlapped this one has called fn
   ovRan |-> \E q \in Active : key[q] = k /\ hist[q].ran,
   \* this call has called fn
   ran |-> FALSE,
   \* the fn of an execution for k was running when this call started
   calledInFlight |-> \E r \in CallsFor(k) : FnRunning(r),
   \* the fn of an execution for another key was running when it started
   calledBesideFn |-> \E q \in Procs : pc[q] = "fn" /\ key[q] # k,
   \* an execution for k had been deleted from g.m when it started
   calledAfterForgotten |-> \E r \in CallsFor(k) : calls[r].forgotten,
   \* the executions for k whose fn was running when this call started
   flyingAtCall |-> {r \in CallsFor(k) : FnRunning(r)},
   \* the executions for k whose fn had completed, and on which no goroutine
   \* was blocked any more, when this call started
   drainedAtCall |-> {r \in CallsFor(k) : calls[r].wg = 0 /\ ~HasWaiter(r)},
   \* the executions for k whose executor had deleted the map entry when
   \* this call started
   forgottenAtCall |-> {r \in CallsFor(k) : calls[r].forgotten},
   \* the executions for k that were registered in g.m / whose fn was
   \* running when this call looked g.m up
   looked |-> FALSE,
   lookedRegistered |-> FALSE,
   lookedInFlight |-> FALSE,
   registeredAtLookup |-> {},
   flyingAtLookup |-> {}]

\* The history of p's invocation once it has looked g.m up.
Looked(p, runs) ==
  [hist[p] EXCEPT
     !.ran = runs,
     !.looked = TRUE,
     !.lookedRegistered = \E r \in CallsFor(key[p]) : Registered(r),
     !.lookedInFlight = \E r \in CallsFor(key[p]) : FnRunning(r),
     !.registeredAtLookup = {r \in CallsFor(key[p]) : Registered(r)},
     !.flyingAtLookup = {r \in CallsFor(key[p]) : FnRunning(r)}]

IdleHist ==
  [ovSame |-> FALSE, ovRan |-> FALSE, ran |-> FALSE, calledInFlight |-> FALSE,
   calledBesideFn |-> FALSE, calledAfterForgotten |-> FALSE,
   flyingAtCall |-> {}, drainedAtCall |-> {}, forgottenAtCall |-> {},
   looked |-> FALSE, lookedRegistered |-> FALSE, lookedInFlight |-> FALSE,
   registeredAtLookup |-> {}, flyingAtLookup |-> {}]

\* A history keeps the addresses of live call structs only.
Prune(h, heap) ==
  [h EXCEPT !.flyingAtCall = @ \cap DOMAIN heap,
            !.drainedAtCall = @ \cap DOMAIN heap,
            !.forgottenAtCall = @ \cap DOMAIN heap,
            !.registeredAtLookup = @ \cap DOMAIN heap,
            !.flyingAtLookup = @ \cap DOMAIN heap]

\* No Do call has returned yet.
NoCall == [returned |-> FALSE]

\* Do returns res to goroutine p: its frame (key, c) is gone, and the call
\* structs nothing points to any more are collected.
Returns(p, res) ==
  /\ last' = [returned |-> TRUE,
              res |-> res,
              \* what the fn of the call struct it read had returned
              out |-> calls[c[p]].out,
              key |-> key[p],
              ran |-> hist[p].ran,
              ovSame |-> hist[p].ovSame,
              calledInFlight |-> hist[p].calledInFlight,
              calledBesideFn |-> hist[p].calledBesideFn,
              calledAfterForgotten |-> hist[p].calledAfterForgotten,
              lookedInFlight |-> hist[p].lookedInFlight,
              lookedRegistered |-> hist[p].lookedRegistered,
              \* the call struct it read was ...
              fromFlyingAtCall |-> c[p] \in hist[p].flyingAtCall,
              fromDrainedAtCall |-> c[p] \in hist[p].drainedAtCall,
              fromForgottenAtCall |-> c[p] \in hist[p].forgottenAtCall,
              fromRegisteredAtLookup |-> c[p] \in hist[p].registeredAtLookup,
              fromFlyingAtLookup |-> c[p] \in hist[p].flyingAtLookup]
  /\ pc' = [pc EXCEPT ![p] = "idle"]
  /\ key' = [key EXCEPT ![p] = "k1"]
  /\ c' = [c EXCEPT ![p] = 0]
  /\ calls' = Collect(calls, m, c')
  /\ hist' = [q \in Procs |-> IF q = p THEN IdleHist ELSE Prune(hist[q], calls')]

SFInit ==
  /\ mu = 0
  /\ m = <<>>
  /\ calls = <<>>
  /\ pc = [p \in Procs |-> "idle"]
  /\ key = [p \in Procs |-> "k1"]
  /\ c = [p \in Procs |-> 0]
  /\ ncalls = 0
  /\ hist = [p \in Procs |-> IdleHist]
  /\ last = NoCall

\* A goroutine calls g.Do(k, fn).  Goroutines and keys are interchangeable:
\* the goroutines are numbered in the order of their first call, and the
\* first call is on key k1.
Invoke(p, k) ==
  /\ pc[p] = "idle"
  /\ ncalls < MaxCalls
  /\ p <= ncalls + 1
  /\ ncalls = 0 => k = "k1"
  /\ ncalls' = ncalls + 1
  /\ hist' = [q \in Procs |->
                IF q = p THEN NewHist(k)
                ELSE IF q \in Active /\ key[q] = k
                     THEN [hist[q] EXCEPT !.ovSame = TRUE]
                     ELSE hist[q]]
  /\ pc' = [pc EXCEPT ![p] = "lock"]
  /\ key' = [key EXCEPT ![p] = k]
  /\ UNCHANGED <<mu, m, calls, c, last, lruvars, ringvars, sinkvars>>

\* A faulty variant: the mutex stays with its holder.
UnlockKept(holder) == holder

\* g.mu.Unlock() by its holder: the mutex is free.
Unlock(holder) == 0

\* g.mu.Lock() at the top of Do.
Lock(p) ==
  /\ pc[p] = "lock"
  /\ mu = 0
  /\ mu' = p
  /\ pc' = [pc EXCEPT ![p] = "locked"]
  /\ UNCHANGED <<m, calls, key, c, ncalls, hist, last, lruvars, ringvars, sinkvars>>

\* Under the mutex: the lookup of g.m[key], then either the duplicate's
\* branch (unlock, go and wait) or the allocation and registration of a new
\* call struct, the unlock and the call of fn.
Lookup(p) ==
  /\ pc[p] = "locked"
  /\ mu = p
  /\ IF Find(m, key[p]) # 0
     THEN /\ c' = [c EXCEPT ![p] = Find(m, key[p])]
          /\ pc' = [pc EXCEPT ![p] = "wait"]
          /\ hist' = [hist EXCEPT ![p] = Looked(p, FALSE)]
          /\ UNCHANGED <<m, calls>>
     ELSE /\ calls' = [r \in DOMAIN calls \cup {NewAddr} |->
                         IF r = NewAddr THEN NewCall(key[p]) ELSE calls[r]]
          /\ c' = [c EXCEPT ![p] = NewAddr]
          /\ m' = MapPut(m, key[p], NewAddr)
          /\ pc' = [pc EXCEPT ![p] = "fn"]
          /\ hist' = [q \in Procs |->
                        IF q = p THEN Looked(p, TRUE)
                        ELSE IF q \in Active /\ key[q] = key[p]
                             THEN [hist[q] EXCEPT !.ovRan = TRUE]
                             ELSE hist[q]]
  /\ mu' = Unlock(p)
  /\ UNCHANGED <<key, ncalls, last, lruvars, ringvars, sinkvars>>

\* c.wg.Wait() returns, and the duplicate returns c.val, c.err.
WaitReturn(p) ==
  /\ pc[p] = "wait"
  /\ WaitOver(c[p])
  /\ Returns(p, <<calls[c[p]].val, calls[c[p]].err>>)
  /\ UNCHANGED <<mu, m, ncalls, lruvars, ringvars, sinkvars>>

\* A faulty variant: the counter is left as it is.
DoneNot(n) == n

\* c.wg.Done(): the WaitGroup's counter goes down by one.
Done(n) == n - 1

\* fn returns o = (value, error): c.val, c.err = fn(); c.wg.Done()
FnReturn(p, o) ==
  /\ pc[p] = "fn"
  /\ calls' = [calls EXCEPT ![c[p]].val = o[1], ![c[p]].err = o[2],
                            ![c[p]].out = o, ![c[p]].wg = Done(@)]
  /\ pc' = [pc EXCEPT ![p] = "relock"]
  /\ UNCHANGED <<mu, m, key, c, ncalls, hist, last, lruvars, ringvars, sinkvars>>

\* g.mu.Lock() after fn.
Relock(p) ==
  /\ pc[p] = "relock"
  /\ mu = 0
  /\ mu' = p
  /\ pc' = [pc EXCEPT ![p] = "delete"]
  /\ UNCHANGED <<m, calls, key, c, ncalls, hist, last, lruvars, ringvars, sinkvars>>

\* delete(g.m, key); g.mu.Unlock()
Delete(p) ==
  /\ pc[p] = "delete"
  /\ mu = p
  /\ m' = MapDelete(m, key[p])
  /\ calls' = [calls EXCEPT ![c[p]].forgotten = TRUE]
  /\ mu' = Unlock(p)
  /\ pc' = [pc EXCEPT ![p] = "return"]
  /\ UNCHANGED <<key, c, ncalls, hist, last, lruvars, ringvars, sinkvars>>

\* The executing caller returns c.val, c.err.
Return(p) ==
  /\ pc[p] = "return"
  /\ Returns(p, <<calls[c[p]].val, calls[c[p]].err>>)
  /\ UNCHANGED <<mu, m, ncalls, lruvars, ringvars, sinkvars>>

SFNext ==
  \/ \E p \in Procs, k \in Keys : Invoke(p, k)
  \/ \E p \in Procs : Lock(p)
  \/ \E p \in Procs : Lookup(p)
  \/ \E p \in Procs : WaitReturn(p)
  \/ \E p \in Procs, o \in Outcomes : FnReturn(p, o)
  \/ \E p \in Procs : Relock(p)
  \/ \E p \in Procs : Delete(p)
  \/ \E p \in Procs : Return(p)

----------------------------------------------------------------------------
(***************************************************************************)
(* lru                                                                     *)
(***************************************************************************)

\* Largest MaxEntries a cache is created with (0: no limit).
MaxCap == 2
\* Number of distinct cache keys.
NumCacheKeys == 3

\* Keys and values passed to the cache.  Key is any comparable value; the
\* keys here are ones equal to themselves.
CacheKeys == 1..NumCacheKeys
CacheVals == {"x", "y"}

\* list.List: PushFront, MoveToFront, Remove, Back, Len on a list of elements.
PushFront(l, e) == <<e>> \o l

ListRemove(l, e) == SelectSeq(l, LAMBDA x : x # e)

\* A faulty variant: the element stays where it is.
MoveToFrontNot(l, e) == l

MoveToFront(l, e) == <<e>> \o ListRemove(l, e)

Back(l) == l[Len(l)]

\* The address of a new list element: one that holds no live element.
NewElem(heap) ==
  CHOOSE a \in 1..(Cardinality(DOMAIN heap) + 1) : a \notin DOMAIN heap

\* A faulty variant: no callback.
NotifyNever(log, set, kv) == log

\* if c.OnEvicted != nil { c.OnEvicted(kv.key, kv.value) }
Notify(log, set, kv) == IF set THEN Append(log, kv) ELSE log

\* The cache's mutable part as a record, for the steps inside one operation.
CacheState == [ll |-> ll, cache |-> cache, elems |-> elems, log |-> <<>>]

\* A faulty variant: the key stays in c.cache.
removeElementKeepsKey(st, e) ==
  [ll |-> SelectSeq(st.ll, LAMBDA x : x # e),
   cache |-> st.cache,
   elems |-> st.elems,
   log |-> IF OnEvicted THEN Append(st.log, st.elems[e]) ELSE st.log]

\* c.removeElement(e)
removeElement(st, e) ==
  LET kv == st.elems[e]
  IN [ll |-> ListRemove(st.ll, e),
      cache |-> [k \in DOMAIN st.cache \ {kv.key} |-> st.cache[k]],
      elems |-> [a \in DOMAIN st.elems \ {e} |-> st.elems[a]],
      log |-> Notify(st.log, OnEvicted, kv)]

\* c.RemoveOldest() on a cache that is not nil
removeOldest(st) ==
  IF Len(st.ll) # 0 THEN removeElement(st, Back(st.ll)) ELSE st

\* A faulty variant: the limit is checked one entry late.
OverLimitLate(n, max) == max # 0 /\ n > max + 1

\* c.MaxEntries != 0 && c.ll.Len() > c.MaxEntries
OverLimit(n, max) == max # 0 /\ n > max

\* c.Len()
CacheLen == IF isNil THEN 0 ELSE Len(ll)

\* The keys Get hits, and the value it returns for one.
Present == IF isNil THEN {} ELSE DOMAIN cache
Stored(k) == elems[cache[k]].value

\* History: the keys of cache cc in the order of their last use, after an
\* operation that used key k (0: none).
Used(cc, k) ==
  (IF k # 0 THEN <<k>> ELSE <<>>) \o SelectSeq(used, LAMBDA x : x # k /\ x \in DOMAIN cc)

\* lru.New(n), with or without an OnEvicted callback.
CacheNew(n, cb) ==
  /\ MaxEntries = n
  /\ OnEvicted = cb
  /\ isNil = FALSE
  /\ ll = <<>>
  /\ cache = <<>>
  /\ elems = <<>>
  /\ op = [name |-> "New", key |-> 0]
  /\ evicted = <<>>
  /\ used = <<>>
  /\ added = <<>>

LRUInit == \E n \in 0..MaxCap, cb \in BOOLEAN : CacheNew(n, cb)

\* The cache while another component is checked.
LRUIdle == CacheNew(0, FALSE)

\* The state an operation leaves.
Becomes(st, name, k, touched) ==
  /\ isNil' = FALSE
  /\ ll' = st.ll
  /\ cache' = st.cache
  /\ elems' = st.elems
  /\ evicted' = st.log
  /\ op' = [name |-> name, key |-> k]
  /\ used' = Used(st.cache, touched)
  /\ UNCHANGED <<MaxEntries, OnEvicted>>
  /\ UNCHANGED <<sfvars, ringvars, sinkvars>>

\* A faulty variant: Add takes every key for a new one.
HitNever(cc, k) == FALSE

\* ee, ok := c.cache[key]: is there an element for k?
Hit(cc, k) == k \in DOMAIN cc

\* c.Add(k, v)
CacheAdd(k, v) ==
  LET st == CacheState
  IN /\ IF Hit(st.cache, k)
        THEN Becomes([st EXCEPT !.ll = MoveToFront(st.ll, st.cache[k]),
                                !.elems[st.cache[k]].value = v],
                     "Add", k, k)
        ELSE LET e == NewElem(st.elems)
                 pushed == [st EXCEPT
                              !.ll = PushFront(st.ll, e),
                              !.elems = [a \in DOMAIN st.elems \cup {e} |->
                                           IF a = e THEN [key |-> k, value |-> v]
                                           ELSE st.elems[a]],
                              !.cache = [x \in DOMAIN st.cache \cup {k} |->
                                           IF x = k THEN e ELSE st.cache[x]]]
             IN IF OverLimit(Len(pushed.ll), MaxEntries)
                THEN Becomes(removeOldest(pushed), "Add", k, k)
                ELSE Becomes(pushed, "Add", k, k)
     /\ added' = [x \in (DOMAIN added \cup {k}) \cap DOMAIN cache' |->
                    IF x = k THEN v ELSE added[x]]

\* c.Get(k)
CacheGet(k) ==
  /\ IF ~isNil /\ k \in DOMAIN cache
     THEN Becomes([CacheState EXCEPT !.ll = MoveToFront(ll, cache[k])], "Get", k, k)
     ELSE /\ op' = [name |-> "Get", key |-> k]
          /\ evicted' = <<>>
          /\ UNCHANGED <<MaxEntries, OnEvicted, isNil, ll, cache, elems, used, sfvars, ringvars, sinkvars>>
  /\ UNCHANGED added

\* c.Remove(k)
CacheRemove(k) ==
  /\ IF ~isNil /\ k \in DOMAIN cache
     THEN Becomes(removeElement(CacheState, cache[k]), "Remove", k, 0)
     ELSE /\ op' = [name |-> "Remove", key |-> k]
          /\ evicted' = <<>>
          /\ UNCHANGED <<MaxEntries, OnEvicted, isNil, ll, cache, elems, used, sfvars, ringvars, sinkvars>>
  /\ added' = [x \in DOMAIN added \ {k} |-> added[x]]

\* c.RemoveOldest()
CacheRemoveOldest ==
  /\ IF ~isNil
     THEN Becomes(removeOldest(CacheState), "RemoveOldest", 0, 0)
     ELSE /\ op' = [name |-> "RemoveOldest", key |-> 0]
          /\ evicted' = <<>>
          /\ UNCHANGED <<MaxEntries, OnEvicted, isNil, ll, cache, elems, used, sfvars, ringvars, sinkvars>>
  /\ added' = [x \in DOMAIN added \cap DOMAIN cache' |-> added[x]]

\* c.Clear(): the callback for every entry of c.cache, in the order the map's
\* iteration happens to take (order is a sequence of the keys of c.cache);
\* then c.ll = nil, c.cache = nil.
CacheClear(order) ==
  /\ Len(order) = Cardinality(DOMAIN cache)
  /\ {order[i] : i \in 1..Len(order)} = DOMAIN cache
  /\ evicted' = IF OnEvicted
                THEN [i \in 1..Len(order) |-> elems[cache[order[i]]]]
                ELSE <<>>
  /\ isNil' = TRUE
  /\ ll' = <<>>
  /\ cache' = <<>>
  /\ elems' = <<>>
  /\ op' = [name |-> "Clear", key |-> 0]
  /\ used' = <<>>
  /\ added' = <<>>
  /\ UNCHANGED <<MaxEntries, OnEvicted, sfvars, ringvars, sinkvars>>

\* The sequences of at most n distinct cache keys.
KeyOrders ==
  {o \in UNION {[1..n -> CacheKeys] : n \in 0..NumCacheKeys} :
     \A i, j \in 1..Len(o) : i # j => o[i] # o[j]}

LRUNext ==
  \/ \E k \in CacheKeys, v \in CacheVals : CacheAdd(k, v)
  \/ \E k \in CacheKeys : CacheGet(k)
  \/ \E k \in CacheKeys : CacheRemove(k)
  \/ CacheRemoveOldest
  \/ \E o \in KeyOrders : CacheClear(o)

----------------------------------------------------------------------------
(***************************************************************************)
(* consistenthash                                                          *)
(***************************************************************************)

\* Largest replicas a ring is made with.
MaxReplicas == 2
\* Number of peers passed to Add in a behaviour.
MaxAdded == 3

\* Strings are sequences of decimal digits.  The peers, and the keys looked
\* up.
Peers == {<<2>>, <<3>>, <<6>>}
RingKeys == {<<2>>, <<3>>, <<4>>, <<5>>, <<1, 1>>, <<2, 3>>, <<9, 9>>}
\* Get's result on an empty ring: the empty string.
NoPeer == <<>>

\* strconv.Itoa(i), for i >= 0
RECURSIVE Itoa(_)
Itoa(i) == IF i < 10 THEN <<i>> ELSE Itoa(i \div 10) \o <<i % 10>>

\* Hash functions a caller may pass to New, each with range [0, 2^32):
\* the decimal value of the string (as in the package's tests), and the sum
\* of its digits modulo 8, under which points of different peers collide.
RECURSIVE Atoi(_)
Atoi(str) ==
  IF str = <<>> THEN 0 ELSE 10 * Atoi(SubSeq(str, 1, Len(str) - 1)) + str[Len(str)]

RECURSIVE DigitSum(_)
DigitSum(str) == IF str = <<>> THEN 0 ELSE str[1] + DigitSum(Tail(str))

HashFns == {"atoi", "digitsum"}

\* int(m.hash([]byte(str))).  Both functions stay far below 2^32 on the
\* strings used here, so the conversion from uint32 to int keeps the value.
Hash(fn, str) ==
  IF fn = "atoi" THEN Atoi(str) ELSE DigitSum(str) % 8

\* A faulty variant: the points are left in the order of their insertion.
SortIntsNot(xs) == xs

\* sort.Ints(xs): insertion sort
RECURSIVE SortInts(_)
SortInts(xs) ==
  IF xs = <<>> THEN <<>>
  ELSE LET rest == SortInts(Tail(xs))
           below == SelectSeq(rest, LAMBDA y : y <= Head(xs))
           above == SelectSeq(rest, LAMBDA y : y > Head(xs))
       IN below \o <<Head(xs)>> \o above

\* A faulty variant: the search is for the first point above h.
RECURSIVE SearchAbove(_, _, _, _)
SearchAbove(ks, h, i, j) ==
  IF i < j
  THEN LET mid == (i + j) \div 2
       IN IF ~(ks[mid + 1] > h) THEN SearchAbove(ks, h, mid + 1, j)
          ELSE SearchAbove(ks, h, i, mid)
  ELSE i

\* sort.Search(len(m.keys), func(i int) bool { return m.keys[i] >= hash }),
\* a binary search between i and j (indices from 0, as in Go)
RECURSIVE Search(_, _, _, _)
Search(ks, h, i, j) ==
  IF i < j
  THEN LET mid == (i + j) \div 2
       IN IF ~(ks[mid + 1] >= h) THEN Search(ks, h, mid + 1, j)
          ELSE Search(ks, h, i, mid)
  ELSE i

\* m.IsEmpty()
IsEmpty == Len(keys) = 0

\* m.Get(k)
Get(k) ==
  IF IsEmpty THEN NoPeer
  ELSE LET h == Hash(hash, k)
           found == Search(keys, h, 0, Len(keys))
           idx == IF found = Len(keys) THEN 0 ELSE found
       IN hashMap[keys[idx + 1]]

\* A faulty variant: the loop stops one replica early.
PointsOfShort(p) == [i \in 1..(replicas - 1) |-> Hash(hash, Itoa(i - 1) \o p)]

\* The points of peer p, for i = 0 .. replicas - 1, in order.
PointsOf(p) == [i \in 1..replicas |-> Hash(hash, Itoa(i - 1) \o p)]

\* The loops of m.Add(ps...): the points appended to ks.
RECURSIVE AppendedTo(_, _)
AppendedTo(ks, ps) ==
  IF ps = <<>> THEN ks ELSE AppendedTo(ks \o PointsOf(Head(ps)), Tail(ps))

\* A faulty variant: the points of earlier calls are dropped.
AppendedAnew(ks, ps) == AppendedTo(<<>>, ps)

Appended(ks, ps) == AppendedTo(ks, ps)

\* The loops of m.Add(ps...): the assignments to hm, the later one winning.
RECURSIVE Assigned(_, _)
Assigned(hm, ps) ==
  IF ps = <<>> THEN hm
  ELSE LET p == Head(ps)
           pts == {PointsOf(p)[i] : i \in DOMAIN PointsOf(p)}
       IN Assigned([x \in DOMAIN hm \cup pts |-> IF x \in pts THEN p ELSE hm[x]],
                   Tail(ps))

\* consistenthash.New(r, fn)
RingNew(r, fn) ==
  /\ replicas = r
  /\ hash = fn
  /\ keys = <<>>
  /\ hashMap = <<>>
  /\ peers = <<>>
  /\ got = [key |-> NoPeer, peer |-> NoPeer]

RingInit == \E r \in 0..MaxReplicas, fn \in HashFns : RingNew(r, fn)

\* The ring while another component is checked.
RingIdle == RingNew(1, "atoi")

\* m.Add(ps...)
RingAdd(ps) ==
  /\ Len(peers) + Len(ps) <= MaxAdded
  /\ keys' = SortInts(Appended(keys, ps))
  /\ hashMap' = Assigned(hashMap, ps)
  /\ peers' = peers \o ps
  /\ UNCHANGED <<replicas, hash, got, sfvars, lruvars, sinkvars>>

\* m.Get(k)
RingGet(k) ==
  /\ got' = [key |-> k, peer |-> Get(k)]
  /\ UNCHANGED <<replicas, hash, keys, hashMap, peers, sfvars, lruvars, sinkvars>>

\* The argument lists of Add: one peer or two.
AddArgs == {<<p>> : p \in Peers} \cup {<<p, q>> : p, q \in Peers}

RingNext ==
  \/ \E ps \in AddArgs : RingAdd(ps)
  \/ \E k \in RingKeys : RingGet(k)

----------------------------------------------------------------------------
(***************************************************************************)
(* Sinks                                                                   *)
(*                                                                         *)
(* A byte slice is a buffer address and a length (buf = 0: the nil slice); *)
(* heap gives each buffer its bytes.  A string is a sequence of bytes, a   *)
(* value.  A ByteView is a record of a slice b and a string s.             *)
(***************************************************************************)

SinkKinds == {"string", "byteView", "proto", "allocBytes", "truncBytes"}

\* The strings and byte contents the caller passes.
Contents == {<<>>, <<1>>, <<8, 1>>, <<1, 8, 1>>}
\* The lengths of the buffer a truncating sink is made over.
TargetLens == {0, 2}
\* A message is the sequence of the values of its fields; a field of value 0
\* is a required field left unset, which proto.Marshal reports as an error.
Msgs == {<<>>, <<1>>, <<0>>}
\* The bytes a caller writes into a buffer it holds.
Scribbles == {9}

NilSlice == [buf |-> 0, len |-> 0]
\* The zero ByteView
ZeroView == [b |-> NilSlice, s |-> <<>>]

\* b[0:len(b)]
Bytes(h, b) == IF b.buf = 0 THEN <<>> ELSE SubSeq(h[b.buf], 1, b.len)

\* make([]byte, n) filled with x: the heap with the new buffer, and the slice
Alloc(h, x) == [heap |-> Append(h, x), sl |-> [buf |-> Len(h) + 1, len |-> Len(x)]]

\* A faulty variant: the slice itself is handed on.
cloneBytesNot(h, b) == [heap |-> h, sl |-> b]

\* cloneBytes(b)
cloneBytes(h, b) == Alloc(h, Bytes(h, b))

\* v.ByteSlice() / v.String(): the content of a ByteView
ViewBytes(h, v) == IF v.b.buf # 0 THEN Bytes(h, v.b) ELSE v.s

\* proto.Marshal(m): a tag byte and the value for each field
RECURSIVE Encode(_)
Encode(msg) == IF msg = <<>> THEN <<>> ELSE <<8, Head(msg)>> \o Encode(Tail(msg))

Marshal(msg) ==
  IF \E i \in 1..Len(msg) : msg[i] = 0
  THEN [err |-> TRUE, enc |-> <<>>]
  ELSE [err |-> FALSE, enc |-> Encode(msg)]

\* proto.Unmarshal(x, dst): dst is reset, then filled from x
RECURSIVE Decode(_)
Decode(x) ==
  IF x = <<>> THEN [err |-> FALSE, msg |-> <<>>]
  ELSE IF Len(x) < 2 \/ x[1] # 8 \/ x[2] = 0 THEN [err |-> TRUE, msg |-> <<>>]
  ELSE LET rest == Decode(SubSeq(x, 3, Len(x)))
       IN [err |-> rest.err, msg |-> <<x[2]>> \o rest.msg]

Unmarshal(x) == Decode(x)

\* ---- stringSink ----
stringSinkSetString(st, x) ==
  [st EXCEPT !.sv.b = NilSlice, !.sv.s = x, !.target = x, !.res = "ok"]

stringSinkSetBytes(st, b) == stringSinkSetString(st, Bytes(st.heap, b))

stringSinkSetProto(st, msg) ==
  IF Marshal(msg).err THEN [st EXCEPT !.res = "marshal"]
  ELSE LET a == Alloc(st.heap, Marshal(msg).enc)
       IN [st EXCEPT !.heap = a.heap, !.sv.b = a.sl,
                     !.target = Bytes(a.heap, a.sl), !.res = "ok"]

\* ---- byteViewSink ----
byteViewSinkSetView(st, v) == [st EXCEPT !.target = v, !.res = "ok"]

byteViewSinkSetProto(st, msg) ==
  IF Marshal(msg).err THEN [st EXCEPT !.res = "marshal"]
  ELSE LET a == Alloc(st.heap, Marshal(msg).enc)
       IN [st EXCEPT !.heap = a.heap, !.target = [b |-> a.sl, s |-> <<>>],
                     !.res = "ok"]

byteViewSinkSetBytes(st, b) ==
  LET a == cloneBytes(st.heap, b)
  IN [st EXCEPT !.heap = a.heap, !.target = [b |-> a.sl, s |-> <<>>],
                !.res = "ok"]

byteViewSinkSetString(st, x) ==
  [st EXCEPT !.target = [b |-> NilSlice, s |-> x], !.res = "ok"]

\* ---- protoSink ----
protoSinkSetBytes(st, b) ==
  LET u == Unmarshal(Bytes(st.heap, b))
  IN IF u.err THEN [st EXCEPT !.target = u.msg, !.res = "unmarshal"]
     ELSE LET a == cloneBytes(st.heap, b)
          IN [st EXCEPT !.heap = a.heap, !.target = u.msg, !.sv.b = a.sl,
                        !.sv.s = <<>>, !.res = "ok"]

protoSinkSetString(st, x) ==
  LET a == Alloc(st.heap, x)
      u == Unmarshal(Bytes(a.heap, a.sl))
  IN IF u.err THEN [st EXCEPT !.target = u.msg, !.res = "unmarshal"]
     ELSE [st EXCEPT !.heap = a.heap, !.target = u.msg, !.sv.b = a.sl,
                     !.sv.s = <<>>, !.res = "ok"]

protoSinkSetProto(st, msg) ==
  IF Marshal(msg).err THEN [st EXCEPT !.res = "marshal"]
  ELSE LET a == Alloc(st.heap, Marshal(msg).enc)
           u == Unmarshal(Bytes(a.heap, a.sl))
       IN IF u.err THEN [st EXCEPT !.target = u.msg, !.res = "unmarshal"]
          ELSE [st EXCEPT !.heap = a.heap, !.target = u.msg, !.sv.b = a.sl,
                          !.sv.s = <<>>, !.res = "ok"]

\* ---- allocBytesSink ----
\* setView dereferences s.dst without a test: a nil s.dst panics.
allocBytesSinkSetView(st, v) ==
  IF st.dstNil THEN [st EXCEPT !.res = "panic"]
  ELSE LET a == IF v.b.buf # 0 THEN cloneBytes(st.heap, v.b)
                ELSE Alloc(st.heap, v.s)
       IN [st EXCEPT !.heap = a.heap, !.target = a.sl, !.sv = v, !.res = "ok"]

allocBytesSinkSetBytesOwned(st, b) ==
  IF st.dstNil THEN [st EXCEPT !.res = "nil dst"]
  ELSE LET a == cloneBytes(st.heap, b)
       IN [st EXCEPT !.heap = a.heap, !.target = a.sl, !.sv.b = b,
                     !.sv.s = <<>>, !.res = "ok"]

allocBytesSinkSetProto(st, msg) ==
  IF Marshal(msg).err THEN [st EXCEPT !.res = "marshal"]
  ELSE LET a == Alloc(st.heap, Marshal(msg).enc)
       IN allocBytesSinkSetBytesOwned([st EXCEPT !.heap = a.heap], a.sl)

allocBytesSinkSetBytes(st, b) ==
  LET a == cloneBytes(st.heap, b)
  IN allocBytesSinkSetBytesOwned([st EXCEPT !.heap = a.heap], a.sl)

\* A faulty variant: s.v.b keeps the bytes of an earlier set.
allocBytesSinkSetStringStale(st, x) ==
  IF st.dstNil THEN [st EXCEPT !.res = "nil dst"]
  ELSE LET a == Alloc(st.heap, x)
       IN [st EXCEPT !.heap = a.heap, !.target = a.sl, !.sv.s = x, !.res = "ok"]

allocBytesSinkSetString(st, x) ==
  IF st.dstNil THEN [st EXCEPT !.res = "nil dst"]
  ELSE LET a == Alloc(st.heap, x)
       IN [st EXCEPT !.heap = a.heap, !.target = a.sl, !.sv.b = NilSlice,
                     !.sv.s = x, !.res = "ok"]

\* ---- truncBytesSink ----
Min(a, b) == IF a < b THEN a ELSE b

\* n := copy(dst, x): the first n = min(len(dst), len(x)) bytes of x are
\* written to the buffer of dst
Copy(h, dst, x) ==
  LET n == Min(dst.len, Len(x))
  IN [heap |-> IF dst.buf = 0 THEN h
               ELSE [h EXCEPT ![dst.buf] =
                       [i \in 1..Len(@) |-> IF i <= n THEN x[i] ELSE @[i]]],
      n |-> n]

\* A faulty variant: the target keeps its length.
ShrinkNot(dst, n) == dst

\* if n < len(*s.dst) { *s.dst = (*s.dst)[:n] }
Shrink(dst, n) == IF n < dst.len THEN [dst EXCEPT !.len = n] ELSE dst

truncBytesSinkSetBytesOwned(st, b) ==
  IF st.dstNil THEN [st EXCEPT !.res = "nil dst"]
  ELSE LET cp == Copy(st.heap, st.target, Bytes(st.heap, b))
       IN [st EXCEPT !.heap = cp.heap, !.target = Shrink(st.target, cp.n),
                     !.sv.b = b, !.sv.s = <<>>, !.res = "ok"]

truncBytesSinkSetProto(st, msg) ==
  IF Marshal(msg).err THEN [st EXCEPT !.res = "marshal"]
  ELSE LET a == Alloc(st.heap, Marshal(msg).enc)
       IN truncBytesSinkSetBytesOwned([st EXCEPT !.heap = a.heap], a.sl)

truncBytesSinkSetBytes(st, b) ==
  LET a == cloneBytes(st.heap, b)
  IN truncBytesSinkSetBytesOwned([st EXCEPT !.heap = a.heap], a.sl)

truncBytesSinkSetString(st, x) ==
  IF st.dstNil THEN [st EXCEPT !.res = "nil dst"]
  ELSE LET cp == Copy(st.heap, st.target, x)
       IN [st EXCEPT !.heap = cp.heap, !.target = Shrink(st.target, cp.n),
                     !.sv.b = NilSlice, !.sv.s = x, !.res = "ok"]

\* ---- the Sink interface ----
SetString(st, x) ==
  CASE st.kind = "string" -> stringSinkSetString(st, x)
    [] st.kind = "byteView" -> byteViewSinkSetString(st, x)
    [] st.kind = "proto" -> protoSinkSetString(st, x)
    [] st.kind = "allocBytes" -> allocBytesSinkSetString(st, x)
    [] st.kind = "truncBytes" -> truncBytesSinkSetString(st, x)

SetBytes(st, b) ==
  CASE st.kind = "string" -> stringSinkSetBytes(st, b)
    [] st.kind = "byteView" -> byteViewSinkSetBytes(st, b)
    [] st.kind = "proto" -> protoSinkSetBytes(st, b)
    [] st.kind = "allocBytes" -> allocBytesSinkSetBytes(st, b)
    [] st.kind = "truncBytes" -> truncBytesSinkSetBytes(st, b)

SetProto(st, msg) ==
  CASE st.kind = "string" -> stringSinkSetProto(st, msg)
    [] st.kind = "byteView" -> byteViewSinkSetProto(st, msg)
    [] st.kind = "proto" -> protoSinkSetProto(st, msg)
    [] st.kind = "allocBytes" -> allocBytesSinkSetProto(st, msg)
    [] st.kind = "truncBytes" -> truncBytesSinkSetProto(st, msg)

\* s.view()
view(st) == IF st.kind = "byteView" THEN st.target ELSE st.sv

\* A faulty variant: no sink is taken for a viewSetter.
HasSetViewNever(k) == FALSE

\* vs, ok := s.(viewSetter)
HasSetView(k) == k \in {"byteView", "allocBytes"}

\* setSinkView(s, v)
setSinkView(st, v) ==
  IF HasSetView(st.kind)
  THEN IF st.kind = "byteView"
       THEN [byteViewSinkSetView(st, v) EXCEPT !.via = "setView"]
       ELSE [allocBytesSinkSetView(st, v) EXCEPT !.via = "setView"]
  ELSE IF v.b.buf # 0
       THEN [SetBytes(st, v.b) EXCEPT !.via = "SetBytes"]
       ELSE [SetString(st, v.s) EXCEPT !.via = "SetString"]

\* ---- one sink and its caller ----
\* The sink as a record, before a call.
Cur ==
  [kind |-> kind, dstNil |-> dstNil, sv |-> sv, target |-> target,
   heap |-> bufs, res |-> "ok", via |-> "none"]

\* The buffer behind the target, for the sinks whose target is a byte slice.
TargetBuf(st) ==
  IF st.kind \in {"allocBytes", "truncBytes"} /\ ~st.dstNil THEN st.target.buf
  ELSE 0

\* The buffers in use, each once, in a fixed order: behind view(), behind
\* the target, behind the argument b.
RECURSIVE Dedup(_)
Dedup(xs) ==
  IF xs = <<>> THEN <<>>
  ELSE <<Head(xs)>> \o Dedup(SelectSeq(Tail(xs), LAMBDA y : y # Head(xs)))

Roots(st, b) ==
  Dedup(SelectSeq(<<view(st).b.buf, st.sv.b.buf, TargetBuf(st), b.buf>>,
                  LAMBDA a : a # 0))

\* Buffers are renamed by their place among the roots; the others are
\* garbage.
Renamed(roots, b) ==
  IF b.buf = 0 THEN b
  ELSE [b EXCEPT !.buf = CHOOSE i \in 1..Len(roots) : roots[i] = b.buf]

\* The state after a call that left the sink as st, with argument slice b.
SinkBecomes(st, b) ==
  LET roots == Roots(st, b)
  IN /\ bufs' = [i \in 1..Len(roots) |-> st.heap[roots[i]]]
     /\ sv' = [st.sv EXCEPT !.b = Renamed(roots, @)]
     /\ target' = CASE st.kind = "byteView" ->
                         [st.target EXCEPT !.b = Renamed(roots, @)]
                    [] TargetBuf(st) # 0 -> Renamed(roots, st.target)
                    [] OTHER -> st.target
     /\ UNCHANGED <<kind, dstNil>>

\* The record of the last call: its name, its result, the method that
\* setSinkView chose, the argument (slice b, string s, its content x when the
\* call was made), who holds the buffer of b, and whether the caller has
\* written to a buffer since.
Called(roots, name, st, b, s, x, own) ==
  [name |-> name, res |-> st.res, via |-> st.via, b |-> Renamed(roots, b),
   s |-> s, x |-> x, own |-> own, written |-> FALSE]

NoSinkCall ==
  [name |-> "none", res |-> "ok", via |-> "none", b |-> NilSlice, s |-> <<>>,
   x |-> <<>>, own |-> "none", written |-> FALSE]

\* StringSink(sp), ByteViewSink(dst), ProtoSink(m),
\* AllocatingByteSliceSink(dst), TruncatingByteSliceSink(dst): k is the kind,
\* nodst says that dst is nil, n is the length of the buffer *dst of a
\* truncating sink.
SinkNew(k, nodst, n) ==
  /\ kind = k
  /\ dstNil = nodst
  /\ sv = ZeroView
  /\ bufs = IF k = "truncBytes" /\ ~nodst THEN <<[i \in 1..n |-> 0]>> ELSE <<>>
  /\ target = CASE k = "byteView" -> ZeroView
                [] k = "truncBytes" /\ ~nodst -> [buf |-> 1, len |-> n]
                [] k \in {"allocBytes", "truncBytes"} -> NilSlice
                [] OTHER -> <<>>
  /\ sop = NoSinkCall

SinkInit ==
  \E k \in SinkKinds, nodst \in BOOLEAN, n \in TargetLens :
    /\ nodst => k \in {"allocBytes", "truncBytes"} /\ n = 0
    /\ k # "truncBytes" => n = 0
    /\ SinkNew(k, nodst, n)

\* The sink while another component is checked.
SinkIdle == SinkNew("string", FALSE, 0)

\* s.SetString(x)
SinkSetString(x) ==
  LET st == SetString(Cur, x)
  IN /\ SinkBecomes(st, NilSlice)
     /\ sop' = Called(Roots(st, NilSlice), "SetString", st, NilSlice, x, x, "none")
     /\ UNCHANGED <<sfvars, lruvars, ringvars>>

\* s.SetBytes(b), b a buffer of the caller holding x, or nil
SinkSetBytes(x, isnil) ==
  /\ isnil => x = <<>>
  /\ LET a == IF isnil THEN [heap |-> bufs, sl |-> NilSlice] ELSE Alloc(bufs, x)
         st == SetBytes([Cur EXCEPT !.heap = a.heap], a.sl)
     IN /\ SinkBecomes(st, a.sl)
        /\ sop' = Called(Roots(st, a.sl), "SetBytes", st, a.sl, <<>>, x, "caller")
  /\ UNCHANGED <<sfvars, lruvars, ringvars>>

\* s.SetProto(msg)
SinkSetProto(msg) ==
  LET st == SetProto(Cur, msg)
  IN /\ SinkBecomes(st, NilSlice)
     /\ sop' = Called(Roots(st, NilSlice), "SetProto", st, NilSlice, <<>>,
                      Marshal(msg).enc, "none")
     /\ UNCHANGED <<sfvars, lruvars, ringvars>>

\* setSinkView(s, v), v a view of the cache: over a buffer holding x, or
\* over the string x
SinkSetSinkView(x, backed) ==
  LET a == IF backed = "bytes" THEN Alloc(bufs, x)
           ELSE [heap |-> bufs, sl |-> NilSlice]
      v == [b |-> a.sl, s |-> IF backed = "bytes" THEN <<>> ELSE x]
      st == setSinkView([Cur EXCEPT !.heap = a.heap], v)
  IN /\ SinkBecomes(st, v.b)
     /\ sop' = Called(Roots(st, v.b), "setSinkView", st, v.b, v.s, x, "cache")
     /\ UNCHANGED <<sfvars, lruvars, ringvars>>

\* The buffers the caller holds and may write to: the b of its last SetBytes
\* and the byte slice behind the target.
CallerBufs ==
  ({TargetBuf(Cur)} \cup (IF sop.own = "caller" THEN {sop.b.buf} ELSE {})) \ {0}

\* The caller writes byte y at place i of a buffer it holds.
CallerWrites(a, i, y) ==
  /\ a \in CallerBufs
  /\ i \in 1..Len(bufs[a])
  /\ bufs[a][i] # y
  /\ bufs' = [bufs EXCEPT ![a][i] = y]
  /\ sop' = [sop EXCEPT !.written = TRUE]
  /\ UNCHANGED <<kind, dstNil, sv, target, sfvars, lruvars, ringvars>>

\* The addresses of the buffers in use, and the places in a buffer.
Addrs == 1..3
Places == 1..3

SinkNext ==
  \/ \E x \in Contents : SinkSetString(x)
  \/ \E x \in Contents, isnil \in BOOLEAN : SinkSetBytes(x, isnil)
  \/ \E msg \in Msgs : SinkSetProto(msg)
  \/ \E x \in Contents, backed \in {"bytes", "string"} : SinkSetSinkView(x, backed)
  \/ \E a \in Addrs, i \in Places, y \in Scribbles : CallerWrites(a, i, y)

----------------------------------------------------------------------------
(***************************************************************************)
(* Specifications                                                          *)
(***************************************************************************)

InitSingleflight == SFInit /\ LRUIdle /\ RingIdle /\ SinkIdle

SpecSingleflight == InitSingleflight /\ [][SFNext]_vars

\* Every fn returns and the scheduler is fair: a goroutine that can take a
\* step of Do, and stays able to, takes it.  Nothing obliges anyone to call
\* Do.  (sync.Mutex promises more, that no waiter starves; with the number
\* of calls bounded the weaker condition is enough.)
SpecSingleflightFair ==
  /\ InitSingleflight /\ [][SFNext]_vars
  /\ \A p \in Procs :
       /\ WF_vars(Lock(p))
       /\ WF_vars(Lookup(p))
       /\ WF_vars(WaitReturn(p))
       /\ WF_vars(\E o \in Outcomes : FnReturn(p, o))
       /\ WF_vars(Relock(p))
       /\ WF_vars(Delete(p))
       /\ WF_vars(Return(p))

InitLRU == SFInit /\ LRUInit /\ RingIdle /\ SinkIdle

SpecLRU == InitLRU /\ [][LRUNext]_vars

InitRing == SFInit /\ LRUIdle /\ RingInit /\ SinkIdle

SpecRing == InitRing /\ [][RingNext]_vars

InitSinks == SFInit /\ LRUIdle /\ RingIdle /\ SinkInit

SpecSinks == InitSinks /\ [][SinkNext]_vars

Init == SFInit /\ LRUInit /\ RingInit /\ SinkInit

Next == SFNext \/ LRUNext \/ RingNext \/ SinkNext

Spec == Init /\ [][Next]_vars

----------------------------------------------------------------------------
(***************************************************************************)
(* Properties of singleflight                                              *)
(***************************************************************************)

\* C1: for each key at most one invocation of fn started by Do(key, fn) is
\* running (called and not yet returned) in any reachable state.
C1_OneFnPerKey ==
  \A k \in Keys : Cardinality({p \in Procs : pc[p] = "fn" /\ key[p] = k}) <= 1

\* Two callers are inside Do for the same key: the fn of one is running and
\* the other is blocked on its call struct.
C1_Witness ==
  \E p, q \in Procs :
    /\ p # q /\ key[p] = key[q]
    /\ pc[p] = "fn" /\ pc[q] = "wait" /\ c[q] = c[p]

\* C2 as stated: a caller that calls Do(key) while another caller's fn for
\* that key is running does not run its own fn, and returns, after that fn
\* has completed, exactly what that fn returned.
C2_CalledInFlight ==
  /\ \A p \in Active : hist[p].calledInFlight => ~hist[p].ran
  /\ (last.returned /\ last.calledInFlight) =>
       /\ ~last.ran
       /\ last.fromFlyingAtCall
       /\ last.out \in Outcomes
       /\ last.res = last.out

\* C2 (amended): a caller whose Do(key) call looks the key up, under the
\* mutex, while another caller's fn for that key is running does not run its
\* own fn; it waits on that execution's call struct and returns, after that
\* fn has completed, exactly the (value, error) pair that fn returned, a
\* value or an error alike.
C2_LookedInFlight ==
  /\ \A p \in Active :
       (hist[p].looked /\ hist[p].lookedInFlight) =>
         /\ ~hist[p].ran
         /\ pc[p] = "wait"
         /\ c[p] \in hist[p].flyingAtLookup
  /\ (last.returned /\ last.lookedInFlight) =>
       /\ ~last.ran
       /\ last.fromFlyingAtLookup
       /\ last.out \in Outcomes
       /\ last.res = last.out

\* A caller that looked the key up while another caller's fn was running has
\* returned that fn's error.
C2_Witness ==
  /\ last.returned /\ last.lookedInFlight /\ ~last.ran
  /\ last.res[2] = "e1"

\* C3 as stated: of two Do calls on the same key whose lifetimes overlap
\* (each is invoked before the other has returned), at most one calls fn.
C3_OverlapOnce ==
  \A p \in Active : ~(hist[p].ran /\ hist[p].ovRan)

\* C3 (amended): of two Do calls on the same key such that one looks the key
\* up while the other's call struct is registered in g.m (from its
\* registration to its delete), only the registered one calls fn, and both
\* return what that one fn returned: the callers that join one execution
\* all receive the same value.
C3_JoinedOnce ==
  /\ \A p \in Active :
       (hist[p].looked /\ hist[p].lookedRegistered) =>
         /\ ~hist[p].ran
         /\ c[p] \in hist[p].registeredAtLookup
  /\ \A p, q \in Active :
       (hist[p].ran /\ c[q] = c[p] /\ q # p) => ~hist[q].ran
  /\ last.returned =>
       /\ last.lookedRegistered => (~last.ran /\ last.fromRegisteredAtLookup)
       /\ last.out \in Outcomes
       /\ last.res = last.out

\* A caller has joined an execution whose fn had already completed but whose
\* call struct was still registered, and has returned its result.
C3_Witness ==
  /\ last.returned /\ last.lookedRegistered /\ ~last.lookedInFlight
  /\ ~last.ran /\ last.res = last.out

\* C4 as stated: a Do(k) call invoked once the fn of an execution for k has
\* completed and every waiter blocked on it has been released never returns
\* that execution's result.
C4_DrainedIsForgotten ==
  last.returned => ~last.fromDrainedAtCall

\* C4 (amended): a Do(k) call invoked once the executing caller has deleted
\* k's entry from g.m (which it does after fn has completed and wg.Done has
\* released the waiters) never returns that execution's result: it runs fn
\* afresh or joins a newer execution.
C4_DeletedIsForgotten ==
  /\ \A p \in Active : c[p] \notin hist[p].forgottenAtCall
  /\ last.returned => ~last.fromForgottenAtCall

\* A Do(k) call invoked after the delete of an earlier execution for k, whose
\* executor had not returned yet, has run fn itself and returned.
C4_Witness ==
  last.returned /\ last.calledAfterForgotten /\ last.ran

\* C15: no caller holds g.mu while its fn is running or while it waits on a
\* call struct; the executing caller gives the mutex up before fn, and when
\* it holds it again after fn its next step deletes the key's entry, and
\* nothing else, from g.m and gives the mutex up.
C15_MutexNotHeldAcrossFn ==
  [][/\ \A p \in Procs : pc[p] \in {"fn", "wait"} => mu # p
     /\ \A p \in Procs : pc'[p] \in {"fn", "wait"} => mu' # p
     /\ \A p \in Procs :
          (pc[p] # "fn" /\ pc'[p] = "fn") => (mu = p /\ mu' = 0)
     /\ \A p \in Procs :
          (mu' = p /\ mu # p /\ pc[p] = "relock") => pc'[p] = "delete"
     /\ \A p \in Procs :
          (pc[p] = "delete" /\ pc'[p] # "delete") =>
            /\ mu = p /\ mu' = 0
            /\ DOMAIN m' = DOMAIN m \ {key[p]}
            /\ \A k \in DOMAIN m' : m'[k] = m[k]
            /\ calls'[c[p]].val = calls[c[p]].val]_vars

\* While the fn of one caller is running, another caller of the same key
\* holds the mutex.
C15_Witness ==
  \E p, q \in Procs :
    /\ pc[p] = "fn" /\ pc[q] = "locked" /\ mu = q /\ key[q] = key[p]

\* C21: when every fn returns and the scheduler is fair, every Do call
\* returns, so that no caller stays blocked in Wait; the mutex, once held,
\* is released; and whenever no call is in progress g.m is empty and the
\* mutex is free.
C21_EveryDoReturns ==
  /\ \A p \in Procs : (pc[p] # "idle") ~> (pc[p] = "idle")
  /\ (mu # 0) ~> (mu = 0)
  /\ [](Active = {} => (DOMAIN m = {} /\ mu = 0))

\* All the calls have been made and have returned, the last of them a
\* duplicate that had waited for the fn of another; g.m is empty again.
C21_Witness ==
  /\ ncalls = MaxCalls /\ Active = {}
  /\ last.returned /\ ~last.ran /\ last.lookedInFlight
  /\ DOMAIN m = {} /\ mu = 0

\* C5: calls on different keys are independent.  A caller only ever waits on
\* a call struct made for its own key; the mutex it may have to wait for is
\* held only by a caller at the map operations, never by one inside fn or
\* Wait; and a Do call that no call on the same key overlaps, whatever the
\* calls on other keys do, never waits, runs its own fn and returns what
\* that fn returned.
C5_KeysIndependent ==
  /\ \A p \in Procs : pc[p] = "wait" => calls[c[p]].key = key[p]
  /\ mu # 0 => pc[mu] \in {"locked", "delete"}
  /\ \A p \in Active :
       ~hist[p].ovSame => (pc[p] # "wait" /\ (hist[p].looked => hist[p].ran))
  /\ (last.returned /\ ~last.ovSame) =>
       (last.ran /\ last.out \in Outcomes /\ last.res = last.out)

\* A Do(k2) call, started while the fn of a Do(k1) call was running, has run
\* its own fn and returned while that fn is still running.
C5_Witness ==
  /\ last.returned /\ last.calledBesideFn /\ last.ran /\ ~last.ovSame
  /\ \E q \in Procs : pc[q] = "fn" /\ key[q] # last.key /\ ncalls = 2

----------------------------------------------------------------------------
(***************************************************************************)
(* Properties of lru                                                       *)
(***************************************************************************)

\* C6: on a cache created with MaxEntries = N > 0, after any sequence of
\* Add, Get, Remove and RemoveOldest (and Clear), Len() <= N.
C6_LenAtMostMax ==
  MaxEntries > 0 => CacheLen <= MaxEntries

\* An Add on a full cache has evicted an entry and left the cache full.
C6_Witness ==
  /\ MaxEntries > 0 /\ CacheLen = MaxEntries
  /\ op.name = "Add" /\ OnEvicted /\ evicted # <<>>

\* C7: when Add of a new key pushes the length above MaxEntries, the entry
\* removed is the one whose last Add or hitting Get is the oldest among the
\* entries present; every other entry stays retrievable with the value last
\* added for it, and so is the new one.
C7_EvictsLeastRecentlyUsed ==
  [][\A k \in CacheKeys :
       (/\ op'.name = "Add" /\ op'.key = k
        /\ k \notin Present
        /\ MaxEntries > 0 /\ CacheLen + 1 > MaxEntries)
       => LET victim == used[Len(used)]
          IN /\ Present' = (Present \cup {k}) \ {victim}
             /\ \A x \in Present \ {victim} : Stored(x)' = added[x]
             /\ Stored(k)' = added'[k]]_vars

\* With MaxEntries = 2 and keys 1, 2, 3: after Add 1, Add 2, Get 1, the Add
\* of 3 has evicted 2 and left 3 and 1.
C7_Witness ==
  /\ MaxEntries = 2 /\ OnEvicted
  /\ op = [name |-> "Add", key |-> 3]
  /\ Len(evicted) = 1 /\ evicted[1].key = 2
  /\ used = <<3, 1>>

\* C16: Add(k, v) on a key that is present gives it the value v and moves its
\* element to the front; the length, the set of keys, the order of the other
\* elements and their values stay as they were, and nothing is evicted, at
\* MaxEntries too.
C16_AddExistingKeepsRest ==
  [][\A k \in CacheKeys :
       (op'.name = "Add" /\ op'.key = k /\ k \in Present)
       => /\ Stored(k)' = added'[k]
          /\ ll'[1] = cache[k] /\ cache'[k] = cache[k]
          /\ CacheLen' = CacheLen
          /\ Present' = Present
          /\ ListRemove(ll', cache[k]) = ListRemove(ll, cache[k])
          /\ \A x \in Present \ {k} :
               cache'[x] = cache[x] /\ Stored(x)' = Stored(x)
          /\ evicted' = <<>>]_vars

\* On a full cache of two entries with a callback, the Add of the key at the
\* back, with another value than it had, has moved it to the front.
C16_Witness ==
  /\ MaxEntries = 2 /\ OnEvicted /\ CacheLen = 2
  /\ op = [name |-> "Add", key |-> 1]
  /\ used = <<1, 2>> /\ Stored(1) = "y" /\ Stored(2) = "x"
  /\ evicted = <<>>

\* C8: the key-to-element mapping and the list hold the same entries: every
\* key of c.cache points to an element of c.ll whose entry has that key,
\* every element of c.ll is what c.cache holds for its entry's key, and no
\* element and no key occurs twice in c.ll.
C8_MapMatchesList ==
  /\ \A k \in DOMAIN cache :
       /\ \E i \in 1..Len(ll) : ll[i] = cache[k]
       /\ cache[k] \in DOMAIN elems
       /\ elems[cache[k]].key = k
  /\ \A i \in 1..Len(ll) :
       /\ ll[i] \in DOMAIN elems
       /\ elems[ll[i]].key \in DOMAIN cache
       /\ cache[elems[ll[i]].key] = ll[i]
  /\ \A i, j \in 1..Len(ll) :
       i # j => (ll[i] # ll[j] /\ elems[ll[i]].key # elems[ll[j]].key)

\* A Remove has taken an entry out of a cache that still holds two.
C8_Witness ==
  /\ op.name = "Remove" /\ OnEvicted /\ evicted # <<>>
  /\ Len(ll) = 2 /\ Cardinality(DOMAIN cache) = 2

\* C9: with OnEvicted set, an operation calls it exactly once for every
\* entry it removes, with the entry's key and the value it held, and not
\* otherwise: once in a Remove or RemoveOldest that removes an entry and in
\* an Add that evicts one, once per entry present in Clear, never in Get, in
\* an Add that overwrites, in a Remove of an absent key or in a RemoveOldest
\* on an empty cache.
C9_CallbackOncePerRemoval ==
  [][OnEvicted =>
       LET gone == Present \ Present'
       IN /\ Len(evicted') = Cardinality(gone)
          /\ \A k \in gone :
               \E i \in 1..Len(evicted') :
                 evicted'[i] = [key |-> k, value |-> Stored(k)]
          /\ op'.name = "Clear" => gone = Present
          /\ (op'.name = "Remove" /\ op'.key \in Present) => gone = {op'.key}
          /\ (op'.name = "RemoveOldest" /\ CacheLen > 0) => Cardinality(gone) = 1
          /\ op'.name = "Get" => gone = {}
          /\ (op'.name = "Add" /\ op'.key \in Present) => gone = {}]_vars

\* A Clear of a cache of two entries has called the callback twice.
C9_Witness ==
  OnEvicted /\ op.name = "Clear" /\ Len(evicted) = 2

----------------------------------------------------------------------------
(***************************************************************************)
(* Properties of consistenthash                                            *)
(***************************************************************************)

\* The stored points, and those at or above h.
Points == {keys[i] : i \in 1..Len(keys)}
PointsFrom(h) == {x \in Points : x >= h}
Least(xs) == CHOOSE x \in xs : \A y \in xs : x <= y

\* C10: on a non-empty ring Get(k) returns the peer mapped to the smallest
\* stored point >= hash(k), or, when no stored point is >= hash(k), the peer
\* of the smallest point; on an empty ring it returns the empty string.
C10_GetClosestPoint ==
  \A k \in RingKeys :
    IF Points = {} THEN Get(k) = NoPeer
    ELSE LET h == Hash(hash, k)
         IN IF PointsFrom(h) # {}
            THEN Get(k) = hashMap[Least(PointsFrom(h))]
            ELSE Get(k) = hashMap[Least(Points)]

\* On a ring of three peers a Get has wrapped around to the first point, and
\* another key has a point at or above its hash.
C10_Witness ==
  /\ Len(peers) = 3 /\ replicas = 2
  /\ PointsFrom(Hash(hash, got.key)) = {}
  /\ got.peer = hashMap[Least(Points)]
  /\ \E k \in RingKeys : PointsFrom(Hash(hash, k)) \notin {{}, Points}

\* The peers passed to Add so far.
PeerSet == {peers[i] : i \in 1..Len(peers)}

\* C11: on a ring to which the peer set P has been added, Get(k) is a member
\* of P for every key k, unless P is empty, whatever replicas the ring was
\* made with.
C11_GetInPeers ==
  PeerSet # {} => \A k \in RingKeys : Get(k) \in PeerSet

\* C12: an Add of peers that are not on the ring leaves every key with the
\* peer it had or gives it to one of the added peers.
C12_MinimalReshuffle ==
  [][\A k \in RingKeys :
       LET new == {peers'[i] : i \in (Len(peers) + 1)..Len(peers')}
       IN (new # {} /\ new \cap PeerSet = {}) => Get(k)' \in {Get(k)} \cup new]_vars

\* A third, new peer has been added to a ring of two, with points that
\* collide, and some key has moved to it while another key has stayed.
C12_Witness ==
  /\ Len(peers) = 3 /\ replicas = 2 /\ hash = "digitsum"
  /\ peers[3] \notin {peers[1], peers[2]} /\ peers[1] # peers[2]
  /\ Cardinality(Points) < Len(keys)
  /\ \E k \in RingKeys : Get(k) = peers[3]
  /\ \E k \in RingKeys : Get(k) # peers[3]

\* Is xs in ascending order?
Ascending(xs) == \A i, j \in 1..Len(xs) : i < j => xs[i] <= xs[j]

\* The number of i with xs[i] = x.
Count(xs, x) == Cardinality({i \in 1..Len(xs) : xs[i] = x})

\* C17: the point list is ascending, holds replicas points for each peer
\* passed to Add, namely hash(Itoa(i) ++ peer) for i in [0, replicas), each
\* as often as it was contributed, and every point is a key of hashMap.
C17_PointsSortedComplete ==
  LET contributed == [n \in 1..(Len(peers) * replicas) |->
                        Hash(hash, Itoa((n - 1) % replicas)
                                   \o peers[((n - 1) \div replicas) + 1])]
  IN /\ Ascending(keys)
     /\ Len(keys) = replicas * Len(peers)
     /\ \A x \in Points \cup {contributed[n] : n \in DOMAIN contributed} :
          Count(keys, x) = Count(contributed, x)
     /\ Points \subseteq DOMAIN hashMap

\* Three peers, one of them twice, have been added with two replicas each,
\* the points were not appended in ascending order and two of them collide.
C17_Witness ==
  /\ Len(peers) = 3 /\ replicas = 2 /\ Len(keys) = 6
  /\ Cardinality(PeerSet) = 2
  /\ Cardinality(Points) < 5
  /\ ~Ascending(Appended(<<>>, peers))

\* The peers of the Add that leads to the next state.
Added == {peers'[i] : i \in (Len(peers) + 1)..Len(peers')}

\* C22 as stated: an Add of peers that are already on the ring leaves every
\* key with its peer.
C22_ReAddKeepsOwner ==
  [][(Added # {} /\ Added \subseteq PeerSet)
     => \A k \in RingKeys : Get(k)' = Get(k)]_vars

\* C22 (amended): an Add of peers that are already on the ring, each of whose
\* points hashMap still gives to that peer (no peer added later has a point
\* that collides with one of them), leaves every key with its peer.
C22_ReAddOwnedKeepsOwner ==
  [][(/\ Added # {} /\ Added \subseteq PeerSet
      /\ \A p \in Added : \A i \in DOMAIN PointsOf(p) :
           hashMap[PointsOf(p)[i]] = p)
     => \A k \in RingKeys : Get(k)' = Get(k)]_vars

\* Peer 3 and then peer 2 were added, with a point in common that went to
\* peer 2, and peer 2 has been added again: its points are there twice.
C22_Witness ==
  /\ hash = "digitsum" /\ replicas = 2
  /\ peers = <<(<<3>>), (<<2>>), (<<2>>)>>
  /\ Len(keys) = 6 /\ Cardinality(Points) = 3
  /\ \E k \in RingKeys : Get(k) = <<3>>
  /\ \E k \in RingKeys : Get(k) = <<2>>


----------------------------------------------------------------------------
(***************************************************************************)
(* Properties of the sinks                                                 *)
(***************************************************************************)

\* What view() returns, its content, and what the caller observes through
\* the target: the string, the ByteView or the byte slice.
SinkView == view(Cur)
ViewContent == ViewBytes(bufs, SinkView)
TargetContent ==
  CASE kind = "string" -> target
    [] kind = "byteView" -> ViewBytes(bufs, target)
    [] kind \in {"allocBytes", "truncBytes"} -> Bytes(bufs, target)

IsPrefix(xs, ys) == Len(xs) <= Len(ys) /\ xs = SubSeq(ys, 1, Len(xs))

SetNames == {"SetString", "SetBytes", "SetProto"}
ByteSinks == {"string", "byteView", "allocBytes", "truncBytes"}

\* C13: on a string, ByteView, allocating or truncating sink, after a
\* successful SetString, SetBytes or SetProto, whatever sets came before,
\* the content of view() is what the caller observes through the target;
\* for the truncating sink the target is a prefix of the content of view().
C13_ViewMatchesTarget ==
  (kind \in ByteSinks /\ sop.name \in SetNames /\ sop.res = "ok" /\ ~sop.written)
  => /\ ViewContent = sop.x
     /\ IF kind = "truncBytes" THEN IsPrefix(TargetContent, ViewContent)
        ELSE TargetContent = ViewContent

\* A string sink whose s.v still holds the string of an earlier SetString has
\* taken a SetProto: s.v.b, the encoding, is what view() and the target show.
C13_Witness ==
  /\ kind = "string" /\ sop.name = "SetProto" /\ sop.res = "ok"
  /\ sv.s # <<>> /\ sv.b.buf # 0
  /\ target = ViewContent /\ target # sv.s

\* C14: an allocating or truncating sink made with a nil target reports the
\* nil-target error from every call that populates it: SetString, SetBytes,
\* SetProto of a message that can be encoded, and setSinkView.
C14_NilTargetIsError ==
  (kind \in {"allocBytes", "truncBytes"} /\ dstNil /\ sop.name # "none"
   /\ sop.res # "marshal")
  => sop.res = "nil dst"

\* C18: setSinkView calls setView on the sinks that have it (byteViewSink,
\* allocBytesSink), otherwise SetBytes for a view over bytes and SetString
\* for a view over a string; on a string, ByteView, allocating or truncating
\* sink with a target it succeeds and the content of view() is that of v,
\* and the target of a ByteView sink is v itself, over v's buffer.
C18_SetSinkViewFastPath ==
  sop.name = "setSinkView"
  => /\ sop.via = IF kind \in {"byteView", "allocBytes"} THEN "setView"
                  ELSE IF sop.b.buf # 0 THEN "SetBytes" ELSE "SetString"
     /\ (kind \in ByteSinks /\ ~dstNil)
        => /\ sop.res = "ok"
           /\ ViewContent = sop.x
           /\ ViewBytes(bufs, [b |-> sop.b, s |-> sop.s]) = sop.x
           /\ kind = "byteView" => target = [b |-> sop.b, s |-> sop.s]

\* A ByteView sink has been given a view over a buffer of three bytes and its
\* target is over that same buffer.
C18_Witness ==
  /\ kind = "byteView" /\ sop.name = "setSinkView" /\ sop.via = "setView"
  /\ sop.b.buf # 0 /\ target.b.buf = sop.b.buf
  /\ Len(ViewContent) = 3

\* C19: after a successful SetBytes(b) the buffer behind view(), if any, is
\* neither the buffer of b nor the buffer behind the target of an allocating
\* or truncating sink, and whatever the caller writes to those afterwards,
\* the content of view() stays what b held at the call.
C19_SetBytesCopies ==
  (sop.name = "SetBytes" /\ sop.res = "ok")
  => /\ SinkView.b.buf # 0 =>
          /\ SinkView.b.buf # sop.b.buf
          /\ SinkView.b.buf # TargetBuf(Cur)
     /\ ViewContent = sop.x

\* After SetBytes on an allocating sink the caller has overwritten both its
\* buffer b and the target; view() still shows the three bytes b held.
C19_Witness ==
  /\ kind = "allocBytes" /\ sop.name = "SetBytes" /\ sop.written
  /\ Len(sop.x) = 3 /\ ViewContent = sop.x
  /\ \A i \in 1..3 : bufs[sop.b.buf][i] = 9 /\ bufs[target.buf][i] = 9

\* C20: on a truncating sink whose target has length L, a set of the value x
\* leaves the target with the first min(L, len(x)) bytes of x and that
\* length, reports no error, and view() holds all of x.
C20_TruncatesToTarget ==
  [][(/\ kind = "truncBytes" /\ ~dstNil
      /\ sop'.name # "none" /\ ~sop'.written /\ sop'.res # "marshal")
     => LET x == sop'.x
            n == IF target.len < Len(x) THEN target.len ELSE Len(x)
        IN /\ sop'.res = "ok"
           /\ target'.len = n
           /\ Bytes(bufs', target') = SubSeq(x, 1, n)
           /\ ViewContent' = x]_vars

\* A target of length 2 has taken a value of one byte and has length 1; its
\* buffer still has room for two bytes.
C20_Witness ==
  /\ kind = "truncBytes" /\ ~dstNil /\ sop.name = "SetBytes" /\ ~sop.written
  /\ Len(sop.x) = 1 /\ target.len = 1 /\ Len(bufs[target.buf]) = 2
  /\ Bytes(bufs, target) = sop.x /\ ViewContent = sop.x

====
